---------------------------- MODULE Spec2Model ----------------------------
(***************************************************************************)
(* Model of the oxide.computer Ansible collection: the resource modules    *)
(* (project, disk, image, snapshot, ssh_key, instance) reconciling a       *)
(* desired state against the Oxide control plane, and their helpers.       *)
(*                                                                         *)
(* Conventions                                                             *)
(*   - a Python str used as a name is a sequence of one-character strings; *)
(*   - a Python dict is a TLA+ record (function on a set of string keys);  *)
(*   - a Python value that may be None is a sequence of length 0 or 1;     *)
(*   - a Python int that may exceed 31 bits is a little-endian sequence of *)
(*     limbs in base 10^6 (Python ints are unbounded).                     *)
(***************************************************************************)
EXTENDS Integers, Sequences, FiniteSets, TLC

VARIABLES
    module,     \* which module's main() the invocations run
    cp,         \* control plane: object name -> "absent" or stored description
    inv,        \* module.params of the current invocation
    pc,         \* position of the current invocation inside main()
    requests,   \* HTTP requests issued by the current invocation, in order
    resp,       \* (status_code, response) returned by the client function
    outcome,    \* what exit_json / fail_json emitted (sequence of 0 or 1 records)
    prev,       \* summary of the invocation before this one, when this one repeats it
    name_arg,   \* argument of a direct validate_name call
    name_ret,   \* its results, per implementation
    check_mode, \* module.check_mode: the run was started with --check
    pay_arg,    \* argument of a direct payload-builder call
    pay_ret,    \* the payload it built (sequence of 0 or 1 records)
    race        \* two invocations of main() running at once, one record each

vars == <<module, cp, inv, pc, requests, resp, outcome, prev, name_arg, name_ret,
          check_mode, pay_arg, pay_ret, race>>

None == << >>
Some(x) == <<x>>
IsNone(o) == o = << >>
TruthyStr(o) == o /= << >> /\ o[1] /= ""   \* "if x:" for an optional str
TruthyInt(o) == o /= << >> /\ o[1] /= 0    \* "if x:" for an optional int

----------------------------------------------------------------------------
(* Names and validate_name                                                 *)

MaxNameLen == 63
MinNameLen == 1

LowerChars == {"a", "z"}
DigitChars == {"0", "9"}
Hyphen == "-"
Newline == "\n"
OtherChars == {"A", "_"}
Alphabet == LowerChars \cup DigitChars \cup {Hyphen, Newline} \cup OtherChars

LowerLetters ==
    {"a", "b", "c", "d", "e", "f", "g", "h", "i", "j", "k", "l", "m", "n",
    "o", "p", "q", "r", "s", "t", "u", "v", "w", "x", "y", "z"}
Digits == {"0", "1", "2", "3", "4", "5", "6", "7", "8", "9"}

FirstClass == LowerLetters \cup Digits             \* [a-z0-9]
RestClass == LowerLetters \cup Digits \cup {Hyphen} \* [a-z0-9-]

\* s consists of one FirstClass character followed by RestClass characters
FullMatch(s) ==
    /\ Len(s) >= 1
    /\ s[1] \in FirstClass
    /\ \A i \in 2..Len(s) : s[i] \in RestClass

\* re.match(r"^[a-z0-9][a-z0-9-]*$", name): without re.MULTILINE, "$" matches
\* at the end of the string and also just before a newline that ends the string.
ReMatch(s) ==
    \/ FullMatch(s)
    \/ /\ Len(s) >= 1
       /\ s[Len(s)] = Newline
       /\ FullMatch(SubSeq(s, 1, Len(s) - 1))

MsgTooLong == "Name exceeds the maximum length of 63 characters"
MsgTooShort == "Name does not meet the minimum length of 1 character"
MsgPatternUtils == "Name does not match the required pattern. Names must begin with a lower case ASCII letter, be composed exclusively of lowercase ASCII, uppercase ASCII, numbers, and '-', and may not end with a '-'. Names cannot be a UUID though they may contain a UUID."
MsgPatternLib == "Name does not match the required pattern"

\* plugins/module_utils/oxide_utils.py
utils_validate_name(name) ==
    IF Len(name) > MaxNameLen THEN [is_valid |-> FALSE, error_message |-> MsgTooLong]
    ELSE IF Len(name) < MinNameLen THEN [is_valid |-> FALSE, error_message |-> MsgTooShort]
    ELSE IF ~ReMatch(name) THEN [is_valid |-> FALSE, error_message |-> MsgPatternUtils]
    ELSE [is_valid |-> TRUE, error_message |-> ""]

\* library/oxide_disk.py
disk_validate_name(name) ==
    IF Len(name) > MaxNameLen THEN [is_valid |-> FALSE, error_message |-> MsgTooLong]
    ELSE IF ~ReMatch(name) THEN [is_valid |-> FALSE, error_message |-> MsgPatternLib]
    ELSE [is_valid |-> TRUE, error_message |-> ""]

\* library/oxide_instance.py
instance_lib_validate_name(name) ==
    IF Len(name) > MaxNameLen THEN [is_valid |-> FALSE, error_message |-> MsgTooLong]
    ELSE IF ~ReMatch(name) THEN [is_valid |-> FALSE, error_message |-> MsgPatternLib]
    ELSE [is_valid |-> TRUE, error_message |-> ""]

\* Inputs of the direct validate_name calls: every string over Alphabet up to
\* MaxShort characters, and strings around the 63-character limit made of a
\* short string padded with "a" in front or behind.
MaxShort == 3
MaxAffix == 1

RECURSIVE StringsOfLen(_)
StringsOfLen(n) ==
    IF n = 0 THEN {<< >>}
    ELSE {Append(s, c) : s \in StringsOfLen(n - 1), c \in Alphabet}

StringsUpTo(n) == UNION {StringsOfLen(k) : k \in 0..n}

Repeat(c, n) == [i \in 1..n |-> c]

NearMaxLens == (MaxNameLen - 1)..(MaxNameLen + 2)

LongStrings ==
    {Repeat("a", n - Len(s)) \o s : s \in StringsUpTo(MaxAffix), n \in NearMaxLens}
    \cup {s \o Repeat("a", n - Len(s)) : s \in StringsUpTo(MaxAffix), n \in NearMaxLens}

\* 3f8e4c7a-9a3d-4e2f-b1c7-839f6d34f7e2
UuidExample ==
    <<"3", "f", "8", "e", "4", "c", "7", "a", "-", "9", "a", "3", "d", "-",
    "4", "e", "2", "f", "-", "b", "1", "c", "7", "-", "8", "3", "9", "f",
    "6", "d", "3", "4", "f", "7", "e", "2">>

\* 00000000-0000-0000-0000-000000000000
UuidNil ==
    [i \in 1..36 |-> IF i \in {9, 14, 19, 24} THEN Hyphen ELSE "0"]

\* names that are a UUID, and names that contain one
UuidInputs ==
    { UuidExample, UuidNil,
      <<"a">> \o UuidExample,
      UuidExample \o <<"-", "a">>,
      <<"a", "-">> \o UuidNil \o <<"-", "z">> }

NameInputs == StringsUpTo(MaxShort) \cup LongStrings \cup UuidInputs

NameImpls == {"utils", "disk", "instance_lib"}
NoResult == [is_valid |-> FALSE, error_message |-> "(not called)"]


----------------------------------------------------------------------------
(* Unbounded Python integers                                               *)

LimbBase == 1000 * 1000

RECURSIVE BigOfInt(_)
BigOfInt(n) ==
    IF n < LimbBase THEN <<n>>
    ELSE <<n % LimbBase>> \o BigOfInt(n \div LimbBase)

RECURSIVE MulCarry(_, _, _)
MulCarry(b, k, carry) ==
    IF b = << >> THEN (IF carry = 0 THEN << >> ELSE BigOfInt(carry))
    ELSE LET t == b[1] * k + carry
         IN  <<t % LimbBase>> \o MulCarry(Tail(b), k, t \div LimbBase)

\* b * k for a machine-size factor k <= 1024
BigMul(b, k) == MulCarry(b, k, 0)

\* x * 1024 * 1024 * 1024, evaluated left to right as Python does
\* mutant: one factor of 1024 short (megabytes to bytes)
TimesMiB(x) == BigMul(BigMul(BigOfInt(x), 1024), 1024)

TimesGiB(x) == BigMul(BigMul(BigMul(BigOfInt(x), 1024), 1024), 1024)

----------------------------------------------------------------------------
(* Dicts, HTTP responses and the control plane                             *)

EmptyDict == [k \in {} |-> k]

HasKey(d, k) == k \in DOMAIN d

Descriptions == {"d1", "d2"}

\* Names the invocations are given: two the control plane accepts, one with an
\* upper-case letter, one with a trailing newline.
ReconcileNames == {<<"a">>, <<"z", "-", "9">>, <<"A">>, <<"a", "\n">>}

\* The control plane's own identifier grammar
CPAccepts(n) == FullMatch(n) /\ Len(n) <= MaxNameLen
CPNames == {n \in ReconcileNames : CPAccepts(n)}

Exists(store, n) == n \in DOMAIN store /\ store[n] /= "absent"

ErrBody(code) == [error_code |-> code, message |-> "error", request_id |-> "req"]
NoCodeBody == [message |-> "error"]
CreatedBody(payload) ==
    [id |-> "id-1", name |-> payload.name, description |-> payload.description]

HttpResponse(status, content) == [status_code |-> status, content |-> content]

\* Answers the control plane gives whatever it holds; they change nothing.
PostErrors ==
    { HttpResponse(400, Some(ErrBody("InvalidRequest"))),
      HttpResponse(400, Some(NoCodeBody)),
      HttpResponse(500, Some(ErrBody("Internal"))),
      HttpResponse(502, None) }

DeleteErrors ==
    { HttpResponse(404, Some(ErrBody("Forbidden"))),
      HttpResponse(404, Some(NoCodeBody)),
      HttpResponse(500, Some(ErrBody("Internal"))),
      HttpResponse(502, None) }

\* POST /v1/{resource}s: the set of (answer, next store) pairs
CPPost(store, payload) ==
    LET n == payload.name
    IN  (IF n \in CPNames /\ ~Exists(store, n)
           THEN {[answer |-> HttpResponse(201, Some(CreatedBody(payload))),
                  store |-> [store EXCEPT ![n] = payload.description]]}
           ELSE {})
        \cup
        (IF Exists(store, n)
           THEN {[answer |-> HttpResponse(400, Some(ErrBody("ObjectAlreadyExists"))),
                  store |-> store]}
           ELSE {})
        \cup {[answer |-> e, store |-> store] : e \in PostErrors}

\* DELETE /v1/{resource}s/{name}
CPDelete(store, n) ==
    (IF Exists(store, n)
       THEN {[answer |-> HttpResponse(204, None),
              store |-> [store EXCEPT ![n] = "absent"]]}
       ELSE {[answer |-> HttpResponse(404, Some(ErrBody("ObjectNotFound"))),
              store |-> store]})
    \cup {[answer |-> e, store |-> store] : e \in DeleteErrors}

\* response.json(): raises when the body is empty or not JSON
Returned(status, response) == [raised |-> FALSE, status_code |-> status, response |-> response]
Raised == [raised |-> TRUE, status_code |-> 0, response |-> EmptyDict]

\* return response.status_code, response.json()
DecodeAlways(r) ==
    IF IsNone(r.content) THEN Raised
    ELSE Returned(r.status_code, r.content[1])

\* if response.status_code == 204: return response.status_code, {}
\* return response.status_code, response.json()
DecodeUnless204(r) ==
    IF r.status_code = 204 THEN Returned(204, EmptyDict)
    ELSE DecodeAlways(r)

----------------------------------------------------------------------------
(* exit_json / fail_json                                                   *)

ExitJson(changed, resource, msg) ==
    [pc |-> "done",
     out |-> Some([changed |-> changed, failed |-> FALSE, msg |-> msg,
                   resource |-> resource, response |-> None])]

FailJson(msg, response) ==
    [pc |-> "failed",
     out |-> Some([changed |-> FALSE, failed |-> TRUE, msg |-> Some(msg),
                   resource |-> None, response |-> response])]

\* an exception nothing catches: the module ends without emitting an outcome
Unhandled == [pc |-> "crashed", out |-> None]

IsCode(response, code) == HasKey(response, "error_code") /\ response.error_code = code


\* what a step of main() leads to when it neither exits nor raises
Proceed(to) == [pc |-> to, out |-> None]

\* what a client function does: raise, return without a request, or send one
PlanRaise == [kind |-> "raise"]
PlanReturn(status, response) == [kind |-> "return", ret |-> Returned(status, response)]
PlanPost(payload) == [kind |-> "post", payload |-> payload]

----------------------------------------------------------------------------
(* plugins/modules/oxide_project.py                                        *)

project_params ==
    [name : ReconcileNames, description : Descriptions, state : {"present", "absent"}]

\* mutant: main() goes on without looking at validate_name's verdict
project_validate_ignored(p) == [is_valid |-> TRUE, error_message |-> ""]
project_validate(p) == utils_validate_name(p.name)

project_required(p) == Proceed("call")

create_project(data) ==
    PlanPost([name |-> data.name, description |-> data.description])

create_project_return(r) == DecodeAlways(r)

delete_project_return(r) == DecodeUnless204(r)

\* mutant: the ObjectAlreadyExists branch is missing
project_present_conflict_fails(status_code, response) ==
    IF status_code = 201 THEN ExitJson(TRUE, Some(response), Some("Project created"))
    ELSE FailJson("Failed to create project", Some(response))
project_present(status_code, response) ==
    IF status_code = 201 THEN ExitJson(TRUE, Some(response), Some("Project created"))
    ELSE IF status_code = 400 THEN
        IF IsCode(response, "ObjectAlreadyExists")
        THEN ExitJson(FALSE, None, Some("Project already present"))
        ELSE FailJson("Failed to create project", Some(response))
    ELSE FailJson("Failed to create project", Some(response))

project_absent(status_code, response) ==
    IF status_code = 204 THEN ExitJson(TRUE, None, Some("Project deleted"))
    ELSE IF status_code = 404 THEN
        IF IsCode(response, "ObjectNotFound")
        THEN ExitJson(FALSE, None, Some("Project not present"))
        ELSE FailJson("Failed to delete project", Some(response))
    ELSE FailJson("Failed to delete project", Some(response))

----------------------------------------------------------------------------
(* plugins/modules/oxide_snapshot.py                                       *)

snapshot_params ==
    [name : ReconcileNames, description : Descriptions,
     disk : {None, Some("disk-1")}, state : {"present", "absent"}]

snapshot_validate(p) == utils_validate_name(p.name)

snapshot_required(p) ==
    IF ~TruthyStr(p.disk)
    THEN FailJson("Parameter 'disk' is required when state is 'present'", None)
    ELSE Proceed("call")

create_snapshot(data) ==
    PlanPost([name |-> data.name, description |-> data.description,
              disk |-> data.disk[1]])

create_snapshot_return(r) == DecodeAlways(r)

delete_snapshot_return(r) == DecodeUnless204(r)

\* mutant: the created snapshot is not attached to the result
snapshot_present_no_resource(status_code, response) ==
    IF status_code = 201 THEN ExitJson(TRUE, None, Some("Snapshot created"))
    ELSE IF status_code = 400 THEN
        IF IsCode(response, "ObjectAlreadyExists")
        THEN ExitJson(FALSE, None, Some("Snapshot already present"))
        ELSE FailJson("Failed to create snapshot", Some(response))
    ELSE FailJson("Failed to create snapshot", Some(response))
snapshot_present(status_code, response) ==
    IF status_code = 201 THEN ExitJson(TRUE, Some(response), Some("Snapshot created"))
    ELSE IF status_code = 400 THEN
        IF IsCode(response, "ObjectAlreadyExists")
        THEN ExitJson(FALSE, None, Some("Snapshot already present"))
        ELSE FailJson("Failed to create snapshot", Some(response))
    ELSE FailJson("Failed to create snapshot", Some(response))

snapshot_absent(status_code, response) ==
    IF status_code = 204 THEN ExitJson(TRUE, None, Some("Snapshot deleted"))
    ELSE IF status_code = 404 THEN
        IF IsCode(response, "ObjectNotFound")
        THEN ExitJson(FALSE, None, Some("Snapshot not present"))
        ELSE FailJson("Failed to delete snapshot", Some(response))
    ELSE FailJson("Failed to delete snapshot", Some(response))

----------------------------------------------------------------------------
(* plugins/modules/oxide_ssh_key.py                                        *)

ssh_key_params ==
    [name : ReconcileNames, description : Descriptions,
     public_key : {None, Some("ssh-ed25519 AAAA")}, state : {"present", "absent"}]

ssh_key_validate(p) == utils_validate_name(p.name)

ssh_key_required(p) ==
    IF ~TruthyStr(p.public_key)
    THEN FailJson("Parameter 'public_key' is required when state is 'present'", None)
    ELSE Proceed("call")

create_ssh_key(data) ==
    PlanPost([name |-> data.name, public_key |-> data.public_key[1],
              description |-> data.description])

create_ssh_key_return(r) == DecodeAlways(r)

delete_ssh_key_return(r) == DecodeUnless204(r)

\* mutant: a create answered 500 is tried again
ssh_key_present_retry(status_code, response) ==
    IF status_code = 201 THEN ExitJson(TRUE, Some(response), Some("SSH key created"))
    ELSE IF status_code = 500 THEN Proceed("call")
    ELSE FailJson("Failed to create SSH key", Some(response))

ssh_key_present(status_code, response) ==
    IF status_code = 201 THEN ExitJson(TRUE, Some(response), Some("SSH key created"))
    ELSE IF status_code = 400 THEN
        IF IsCode(response, "ObjectAlreadyExists")
        THEN ExitJson(FALSE, None, Some("SSH key already present"))
        ELSE FailJson("Failed to create SSH key", Some(response))
    ELSE FailJson("Failed to create SSH key", Some(response))

ssh_key_absent(status_code, response) ==
    IF status_code = 204 THEN ExitJson(TRUE, None, Some("SSH key deleted"))
    ELSE IF status_code = 404 THEN
        IF IsCode(response, "ObjectNotFound")
        THEN ExitJson(FALSE, None, Some("SSH key not present"))
        ELSE FailJson("Failed to delete SSH key", Some(response))
    ELSE FailJson("Failed to delete SSH key", Some(response))


----------------------------------------------------------------------------
(* plugins/modules/oxide_image.py                                          *)

ImageSource == [snapshot |-> [id |-> "snap-1"]]

\* all given; os missing; version missing; source missing; os and source missing
image_profiles ==
    { [os |-> Some("debian"), version |-> Some("12"), source |-> Some(ImageSource)],
      [os |-> None,           version |-> Some("12"), source |-> Some(ImageSource)],
      [os |-> Some("debian"), version |-> None,       source |-> Some(ImageSource)],
      [os |-> Some("debian"), version |-> Some("12"), source |-> None],
      [os |-> None,           version |-> Some("12"), source |-> None] }

image_params ==
    { [name |-> n, description |-> d, os |-> k.os, version |-> k.version,
       source |-> k.source, state |-> st] :
      n \in ReconcileNames, d \in Descriptions, k \in image_profiles,
      st \in {"present", "absent"} }

image_validate(p) == utils_validate_name(p.name)

image_required(p) ==
    IF ~TruthyStr(p.os)
    THEN FailJson("Parameter 'os' is required when state is 'present'", None)
    ELSE IF ~TruthyStr(p.version)
    THEN FailJson("Parameter 'version' is required when state is 'present'", None)
    ELSE Proceed("call")

\* "'snapshot' not in data['source']" raises TypeError when source is None
create_image(data) ==
    IF IsNone(data.source) THEN PlanRaise
    ELSE IF ~HasKey(data.source[1], "snapshot") \/ ~HasKey(data.source[1].snapshot, "id")
    THEN PlanReturn(400, [error_code |-> "InvalidSource",
                          message |-> "The source must include a snapshot id"])
    ELSE PlanPost([description |-> data.description, name |-> data.name,
                   os |-> data.os[1], version |-> data.version[1],
                   source |-> [type |-> "snapshot", id |-> data.source[1].snapshot.id]])

create_image_return(r) == DecodeAlways(r)

delete_image_return(r) == DecodeUnless204(r)

\* mutant: every answer but a conflict is reported as a change
image_present_changed_unless_conflict(status_code, response) ==
    IF status_code = 400 /\ IsCode(response, "ObjectAlreadyExists")
    THEN ExitJson(FALSE, None, Some("Image already present"))
    ELSE ExitJson(TRUE, Some(response), Some("Image created"))

image_present(status_code, response) ==
    IF status_code = 201 THEN ExitJson(TRUE, Some(response), Some("Image created"))
    ELSE IF status_code = 400 THEN
        IF IsCode(response, "ObjectAlreadyExists")
        THEN ExitJson(FALSE, None, Some("Image already present"))
        ELSE FailJson("Failed to create image", Some(response))
    ELSE FailJson("Failed to create image", Some(response))

\* the two failure branches pass response=image, a name main() never binds:
\* evaluating the argument raises NameError before fail_json is entered
image_absent(status_code, response) ==
    IF status_code = 204 THEN ExitJson(TRUE, None, Some("Image deleted"))
    ELSE IF status_code = 404 THEN
        IF IsCode(response, "ObjectNotFound")
        THEN ExitJson(FALSE, None, Some("Image not present"))
        ELSE Unhandled
    ELSE Unhandled

----------------------------------------------------------------------------
(* library/oxide_disk.py                                                   *)

BlankSource ==
    [type |-> "blank", block_size |-> Some(512), snapshot_id |-> None, image_id |-> None]

DiskSource(type, block_size, snapshot_id, image_id) ==
    [type |-> type, block_size |-> block_size, snapshot_id |-> snapshot_id,
     image_id |-> image_id]

\* disk_source as AnsibleModule hands it over: every sub-option is a key;
\* block_size is 512 unless given, the ids are None unless given
disk_sources ==
    { BlankSource,
      DiskSource("importing_blocks", Some(2048), None, None),
      DiskSource("snapshot", Some(512), Some("snap-1"), None),
      DiskSource("snapshot", Some(512), None, None),
      DiskSource("image", Some(512), None, Some("img-1")),
      DiskSource("image", Some(512), None, None) }

disk_params ==
    [name : ReconcileNames, description : Descriptions,
     size : {None, Some(1)}, disk_source : {None} \cup {Some(d) : d \in disk_sources},
     state : {"present", "absent"}]

disk_validate(p) == disk_validate_name(p.name)

\* "disk_source['type']" raises TypeError when disk_source is None
disk_required(p) ==
    IF IsNone(p.disk_source) THEN Unhandled
    ELSE LET ds == p.disk_source[1]
         IN  IF ds.type \in {"blank", "importing_blocks"} /\ ~HasKey(ds, "block_size")
             THEN FailJson("Parameter 'block_size' is required when disk_source type is 'blank' or 'importing_blocks'", None)
             ELSE IF ds.type = "snapshot" /\ ~HasKey(ds, "snapshot_id")
             THEN FailJson("Parameter 'snapshot_id' is required when disk_source type is 'snapshot'", None)
             ELSE IF ds.type = "image" /\ ~HasKey(ds, "image_id")
             THEN FailJson("Parameter 'image_id' is required when disk_source type is 'image'", None)
             ELSE IF ~TruthyInt(p.size)
             THEN FailJson("Parameter 'size' is required when state is 'present'", None)
             ELSE Proceed("call")

\* mutant: the input disk_source is sent as it came
disk_source_passthrough(ds) == ds

disk_source_payload(ds) ==
    IF ds.type \in {"blank", "importing_blocks"}
    THEN [type |-> ds.type, block_size |-> ds.block_size]
    ELSE IF ds.type = "snapshot" THEN [type |-> ds.type, snapshot_id |-> ds.snapshot_id]
    ELSE IF ds.type = "image" THEN [type |-> ds.type, image_id |-> ds.image_id]
    ELSE [type |-> ds.type]

create_disk(data) ==
    PlanPost([description |-> data.description,
              disk_source |-> disk_source_payload(data.disk_source[1]),
              name |-> data.name,
              size |-> TimesGiB(data.size[1])])

create_disk_return(r) == DecodeAlways(r)

delete_disk_return(r) == DecodeUnless204(r)

\* mutant: a 400 on create is a failure
disk_present_400_fails(status_code, response) ==
    IF status_code = 201 THEN ExitJson(TRUE, Some(response), None)
    ELSE FailJson("Failed to create disk", Some(response))

disk_present(status_code, response) ==
    IF status_code = 201 THEN ExitJson(TRUE, Some(response), None)
    ELSE IF status_code = 400 THEN ExitJson(FALSE, Some(response), None)
    ELSE FailJson("Failed to create disk", Some(response))

disk_absent(status_code, response) ==
    IF status_code = 204 THEN ExitJson(TRUE, None, Some("Disk deleted"))
    ELSE IF status_code = 404 THEN
        IF IsCode(response, "ObjectNotFound")
        THEN ExitJson(FALSE, None, Some("Disk not present"))
        ELSE FailJson("Failed to delete disk", Some(response))
    ELSE FailJson("Failed to delete disk", Some(response))


----------------------------------------------------------------------------
(* plugins/modules/oxide_instance.py                                       *)

instance_params ==
    [name : ReconcileNames, description : Descriptions, hostname : {"host"},
     memory : {2}, ncpus : {1}, disks : {None}, ssh_public_keys : {None},
     start_on_create : {TRUE}, user_data : {None}, state : {"present", "absent"}]

instance_validate(p) == utils_validate_name(p.name)

instance_required(p) == Proceed("call")

\* "if x in d and d[x]:" for an optional list
TruthyList(o) == o /= << >> /\ o[1] /= << >>

instance_create_entry(disk) ==
    [description |-> disk.description, disk_source |-> disk.disk_source,
     name |-> disk.name, size |-> TimesGiB(disk.size), type |-> "create"]

instance_attach_entry(disk_id) == [id |-> disk_id, type |-> "attach"]

\* the list built under "if 'disks' in data and data['disks']:"
instance_disks(d) ==
    (IF TruthyList(d.create)
       THEN [i \in 1..Len(d.create[1]) |-> instance_create_entry(d.create[1][i])]
       ELSE << >>)
    \o
    (IF TruthyList(d.attach)
       THEN [i \in 1..Len(d.attach[1]) |-> instance_attach_entry(d.attach[1][i])]
       ELSE << >>)

instance_payload(data) ==
    [name |-> data.name, description |-> data.description,
     hostname |-> data.hostname, memory |-> TimesGiB(data.memory),
     ncpus |-> data.ncpus, start_on_create |-> data.start_on_create]
    @@ (IF data.disks /= None
          THEN [disks |-> instance_disks(data.disks[1])] ELSE EmptyDict)
    @@ (IF TruthyList(data.ssh_public_keys)
          THEN [ssh_public_keys |-> data.ssh_public_keys[1]] ELSE EmptyDict)
    @@ (IF TruthyStr(data.user_data)
          THEN [user_data |-> data.user_data[1]] ELSE EmptyDict)

create_instance(data) == PlanPost(instance_payload(data))

\* plugins/module_utils/oxide_utils.py create_instance: disks is one list whose
\* entries carry their own type; a create entry's size is copied as given
utils_disk_entry(disk) ==
    IF disk.type = "create"
    THEN <<[description |-> disk.description, disk_source |-> disk.disk_source,
            name |-> disk.name, size |-> BigOfInt(disk.size), type |-> "create"]>>
    ELSE IF disk.type = "attach"
    THEN <<[name |-> disk.name, type |-> "attach"]>>
    ELSE << >>

RECURSIVE utils_disks_payload(_)
utils_disks_payload(disks) ==
    IF disks = << >> THEN << >>
    ELSE utils_disk_entry(Head(disks)) \o utils_disks_payload(Tail(disks))

utils_instance_payload(data) ==
    LET disks_payload == IF TruthyList(data.disks)
                         THEN utils_disks_payload(data.disks[1]) ELSE << >>
    IN  [name |-> data.name, description |-> data.description,
         hostname |-> data.hostname, memory |-> TimesGiB(data.memory),
         ncpus |-> data.ncpus, start_on_create |-> data.start_on_create]
        @@ (IF disks_payload /= << >>
              THEN [disks |-> disks_payload] ELSE EmptyDict)
        @@ (IF TruthyList(data.ssh_public_keys)
              THEN [ssh_public_keys |-> data.ssh_public_keys[1]] ELSE EmptyDict)
        @@ (IF TruthyStr(data.user_data)
              THEN [user_data |-> data.user_data[1]] ELSE EmptyDict)

utils_create_instance(data) == PlanPost(utils_instance_payload(data))

\* plugins/module_utils/oxide_utils.py get_instance: defined, called by no main()
get_instance_return(r) == DecodeAlways(r)

create_instance_return(r) == DecodeAlways(r)

delete_instance_return(r) == DecodeUnless204(r)

\* mutant: every 400 is taken for a conflict, as library/oxide_disk.py does
instance_present_any_400(status_code, response) ==
    IF status_code = 201 THEN ExitJson(TRUE, Some(response), Some("Instance created"))
    ELSE IF status_code = 400 THEN ExitJson(FALSE, None, Some("Instance already present"))
    ELSE FailJson("Failed to create instance", Some(response))
instance_present(status_code, response) ==
    IF status_code = 201 THEN ExitJson(TRUE, Some(response), Some("Instance created"))
    ELSE IF status_code = 400 THEN
        IF IsCode(response, "ObjectAlreadyExists")
        THEN ExitJson(FALSE, None, Some("Instance already present"))
        ELSE FailJson("Failed to create instance", Some(response))
    ELSE FailJson("Failed to create instance", Some(response))

instance_absent(status_code, response) ==
    IF status_code = 204 THEN ExitJson(TRUE, None, Some("Instance deleted"))
    ELSE IF status_code = 404 THEN
        IF IsCode(response, "ObjectNotFound")
        THEN ExitJson(FALSE, None, Some("Instance not present"))
        ELSE FailJson("Failed to delete instance", Some(response))
    ELSE FailJson("Failed to delete instance", Some(response))

----------------------------------------------------------------------------
(* library/oxide_instance.py                                               *)

instance_lib_params ==
    [name : ReconcileNames, description : Descriptions, type : {"standard"},
     memory : {4}, vcpu : {2}, disk : {[id |-> "disk-1", size |-> 10]},
     network : {[id |-> "net-1", ip_address |-> "192.168.1.10"]},
     state : {"present", "absent"}]

instance_lib_validate(p) == instance_lib_validate_name(p.name)

instance_lib_required(p) == Proceed("call")

instance_lib_create_instance(data) ==
    PlanPost([description |-> data.description, name |-> data.name,
              type |-> data.type, memory |-> data.memory, vcpu |-> data.vcpu,
              disk |-> [id |-> data.disk.id, size |-> data.disk.size],
              network |-> [id |-> data.network.id,
                           ip_address |-> data.network.ip_address]])

instance_lib_create_return(r) == DecodeAlways(r)

\* no 204 special case: response.json() is applied to every answer
instance_lib_delete_return(r) == DecodeAlways(r)

instance_lib_present(status_code, response) ==
    IF status_code = 201 THEN ExitJson(TRUE, Some(response), Some("Instance created"))
    ELSE IF status_code = 400 THEN
        IF IsCode(response, "ObjectAlreadyExists")
        THEN ExitJson(FALSE, None, Some("Instance already present"))
        ELSE FailJson("Failed to create instance", Some(response))
    ELSE FailJson("Failed to create instance", Some(response))

instance_lib_absent(status_code, response) ==
    IF status_code = 204 THEN ExitJson(TRUE, None, Some("Instance deleted"))
    ELSE IF status_code = 404 THEN
        IF IsCode(response, "ObjectNotFound")
        THEN ExitJson(FALSE, None, Some("Instance not present"))
        ELSE FailJson("Failed to delete instance", Some(response))
    ELSE FailJson("Failed to delete instance", Some(response))


----------------------------------------------------------------------------
(* main() of the resource modules, as steps                                *)

Modules ==
    {"project", "disk", "image", "snapshot", "ssh_key", "instance", "instance_lib"}

Params(m) ==
    CASE m = "project" -> project_params
      [] m = "disk" -> disk_params
      [] m = "image" -> image_params
      [] m = "snapshot" -> snapshot_params
      [] m = "ssh_key" -> ssh_key_params
      [] m = "instance" -> instance_params
      [] m = "instance_lib" -> instance_lib_params

Validate(m, p) ==
    CASE m = "project" -> project_validate(p)
      [] m = "disk" -> disk_validate(p)
      [] m = "image" -> image_validate(p)
      [] m = "snapshot" -> snapshot_validate(p)
      [] m = "ssh_key" -> ssh_key_validate(p)
      [] m = "instance" -> instance_validate(p)
      [] m = "instance_lib" -> instance_lib_validate(p)

Required(m, p) ==
    CASE m = "project" -> project_required(p)
      [] m = "disk" -> disk_required(p)
      [] m = "image" -> image_required(p)
      [] m = "snapshot" -> snapshot_required(p)
      [] m = "ssh_key" -> ssh_key_required(p)
      [] m = "instance" -> instance_required(p)
      [] m = "instance_lib" -> instance_lib_required(p)

CreatePlan(m, p) ==
    CASE m = "project" -> create_project(p)
      [] m = "disk" -> create_disk(p)
      [] m = "image" -> create_image(p)
      [] m = "snapshot" -> create_snapshot(p)
      [] m = "ssh_key" -> create_ssh_key(p)
      [] m = "instance" -> create_instance(p)
      [] m = "instance_lib" -> instance_lib_create_instance(p)

CreateReturn(m, r) ==
    CASE m = "project" -> create_project_return(r)
      [] m = "disk" -> create_disk_return(r)
      [] m = "image" -> create_image_return(r)
      [] m = "snapshot" -> create_snapshot_return(r)
      [] m = "ssh_key" -> create_ssh_key_return(r)
      [] m = "instance" -> create_instance_return(r)
      [] m = "instance_lib" -> instance_lib_create_return(r)

DeleteReturn(m, r) ==
    CASE m = "project" -> delete_project_return(r)
      [] m = "disk" -> delete_disk_return(r)
      [] m = "image" -> delete_image_return(r)
      [] m = "snapshot" -> delete_snapshot_return(r)
      [] m = "ssh_key" -> delete_ssh_key_return(r)
      [] m = "instance" -> delete_instance_return(r)
      [] m = "instance_lib" -> instance_lib_delete_return(r)

Present(m, status_code, response) ==
    CASE m = "project" -> project_present(status_code, response)
      [] m = "disk" -> disk_present(status_code, response)
      [] m = "image" -> image_present(status_code, response)
      [] m = "snapshot" -> snapshot_present(status_code, response)
      [] m = "ssh_key" -> ssh_key_present(status_code, response)
      [] m = "instance" -> instance_present(status_code, response)
      [] m = "instance_lib" -> instance_lib_present(status_code, response)

Absent(m, status_code, response) ==
    CASE m = "project" -> project_absent(status_code, response)
      [] m = "disk" -> disk_absent(status_code, response)
      [] m = "image" -> image_absent(status_code, response)
      [] m = "snapshot" -> snapshot_absent(status_code, response)
      [] m = "ssh_key" -> ssh_key_absent(status_code, response)
      [] m = "instance" -> instance_absent(status_code, response)
      [] m = "instance_lib" -> instance_lib_absent(status_code, response)

Terminal == {"done", "failed", "crashed"}

NoParams == [name |-> << >>, description |-> "", state |-> "none"]
NoResp == Returned(0, EmptyDict)

Exchange(verb, n, payload, answer) ==
    [verb |-> verb, name |-> n, payload |-> payload, answer |-> answer]

Summary == [inv |-> inv, requests |-> requests, outcome |-> outcome, pc |-> pc]

NameIdle ==
    /\ name_arg = << >>
    /\ name_ret = [i \in NameImpls |-> NoResult]

NoPayArg == [fn |-> "none"]

Procs == {1, 2}

\* main() of one of the concurrent invocations, not started
IdleProc == [inv |-> NoParams, pc |-> "idle", requests |-> << >>, resp |-> NoResp,
             outcome |-> None]

RaceIdle == race = [i \in Procs |-> IdleProc]

PayIdle ==
    /\ pay_arg = NoPayArg
    /\ pay_ret = None

Init ==
    /\ module \in Modules
    /\ cp \in [CPNames -> {"absent"} \cup Descriptions]
    /\ inv = NoParams
    /\ pc = "idle"
    /\ requests = << >>
    /\ resp = NoResp
    /\ outcome = None
    /\ prev = None
    /\ check_mode \in BOOLEAN
    /\ NameIdle
    /\ PayIdle
    /\ RaceIdle

\* AnsibleModule(...) hands main() its parameters
Invoke ==
    /\ pc \in {"idle"} \cup Terminal
    /\ \E p \in Params(module) : inv' = p
    /\ pc' = "validate"
    /\ requests' = << >>
    /\ resp' = NoResp
    /\ outcome' = None
    /\ prev' = None
    /\ UNCHANGED <<module, cp, name_arg, name_ret,
                 check_mode, pay_arg, pay_ret, race>>

\* the same task run again: main() is handed the parameters of the invocation
\* that just ended, whose summary is kept for comparison
Reinvoke ==
    /\ pc \in Terminal
    /\ pc' = "validate"
    /\ requests' = << >>
    /\ resp' = NoResp
    /\ outcome' = None
    /\ prev' = Some(Summary)
    /\ UNCHANGED <<module, cp, inv, name_arg, name_ret,
                 check_mode, pay_arg, pay_ret, race>>

\* is_valid, error_message = validate_name(name)
ValidateName ==
    /\ pc = "validate"
    /\ LET v == Validate(module, inv)
           r == IF ~v.is_valid THEN FailJson(v.error_message, None)
                ELSE Proceed(IF inv.state = "present" THEN "check" ELSE "call")
       IN  pc' = r.pc /\ outcome' = r.out
    /\ UNCHANGED <<module, cp, inv, requests, resp, prev, name_arg, name_ret,
                 check_mode, pay_arg, pay_ret, race>>

\* the checks at the head of "if state == 'present':"
RequiredFields ==
    /\ pc = "check"
    /\ LET r == Required(module, inv)
       IN  pc' = r.pc /\ outcome' = r.out
    /\ UNCHANGED <<module, cp, inv, requests, resp, prev, name_arg, name_ret,
                 check_mode, pay_arg, pay_ret, race>>

\* mutant: create-or-update, an object that exists is replaced with a PUT
CallCreateOrUpdate ==
    /\ pc = "call"
    /\ inv.state = "present"
    /\ inv.name \in CPNames
    /\ LET plan == CreatePlan(module, inv)
       IN  /\ plan.kind = "post"
           /\ cp' = [cp EXCEPT ![inv.name] = plan.payload.description]
           /\ requests' = Append(requests,
                 Exchange(IF Exists(cp, inv.name) THEN "PUT" ELSE "POST", inv.name,
                          plan.payload,
                          HttpResponse(201, Some(CreatedBody(plan.payload)))))
           /\ resp' = Returned(201, CreatedBody(plan.payload))
           /\ pc' = "classify"
    /\ UNCHANGED <<module, inv, outcome, prev, name_arg, name_ret,
                 check_mode, pay_arg, pay_ret, race>>

\* status_code, response = create_<kind>({...}, ...)
CallCreate ==
    /\ pc = "call"
    /\ inv.state = "present"
    /\ LET plan == CreatePlan(module, inv)
       IN  CASE plan.kind = "raise" ->
                  /\ pc' = "crashed"
                  /\ UNCHANGED <<cp, requests, resp>>
             [] plan.kind = "return" ->
                  /\ pc' = "classify"
                  /\ resp' = plan.ret
                  /\ UNCHANGED <<cp, requests>>
             [] plan.kind = "post" ->
                  \E a \in CPPost(cp, plan.payload) :
                      LET ret == CreateReturn(module, a.answer)
                      IN  /\ cp' = a.store
                          /\ requests' = Append(requests,
                                Exchange("POST", inv.name, plan.payload, a.answer))
                          /\ resp' = ret
                          /\ pc' = IF ret.raised THEN "crashed" ELSE "classify"
    /\ UNCHANGED <<module, inv, outcome, prev, name_arg, name_ret,
                 check_mode, pay_arg, pay_ret, race>>

\* status_code, response = delete_<kind>(name, ...)
CallDelete ==
    /\ pc = "call"
    /\ inv.state = "absent"
    /\ \E a \in CPDelete(cp, inv.name) :
          LET ret == DeleteReturn(module, a.answer)
          IN  /\ cp' = a.store
              /\ requests' = Append(requests,
                    Exchange("DELETE", inv.name, EmptyDict, a.answer))
              /\ resp' = ret
              /\ pc' = IF ret.raised THEN "crashed" ELSE "classify"
    /\ UNCHANGED <<module, inv, outcome, prev, name_arg, name_ret,
                 check_mode, pay_arg, pay_ret, race>>

\* the if/elif chain on status_code
Classify ==
    /\ pc = "classify"
    /\ LET r == IF inv.state = "present"
                THEN Present(module, resp.status_code, resp.response)
                ELSE Absent(module, resp.status_code, resp.response)
       IN  pc' = r.pc /\ outcome' = r.out
    /\ UNCHANGED <<module, cp, inv, requests, resp, prev, name_arg, name_ret,
                 check_mode, pay_arg, pay_ret, race>>

Next ==
    \/ Invoke
    \/ Reinvoke
    \/ ValidateName
    \/ RequiredFields
    \/ CallCreate
    \/ CallDelete
    \/ Classify

Spec == Init /\ [][Next]_vars

----------------------------------------------------------------------------
(* validate_name called directly, to check it as a function               *)

InitName ==
    /\ module = "project"
    /\ cp = [n \in CPNames |-> "absent"]
    /\ inv = NoParams
    /\ pc = "idle"
    /\ requests = << >>
    /\ resp = NoResp
    /\ outcome = None
    /\ prev = None
    /\ name_arg \in NameInputs
    /\ name_ret = [i \in NameImpls |-> NoResult]
    /\ check_mode = FALSE
    /\ PayIdle
    /\ RaceIdle

CallUtilsValidateName ==
    /\ name_ret["utils"] = NoResult
    /\ name_ret' = [name_ret EXCEPT !["utils"] = utils_validate_name(name_arg)]
    /\ UNCHANGED <<module, cp, inv, pc, requests, resp, outcome, prev, name_arg,
                 check_mode, pay_arg, pay_ret, race>>

CallDiskValidateName ==
    /\ name_ret["disk"] = NoResult
    /\ name_ret' = [name_ret EXCEPT !["disk"] = disk_validate_name(name_arg)]
    /\ UNCHANGED <<module, cp, inv, pc, requests, resp, outcome, prev, name_arg,
                 check_mode, pay_arg, pay_ret, race>>

CallInstanceLibValidateName ==
    /\ name_ret["instance_lib"] = NoResult
    /\ name_ret' = [name_ret EXCEPT !["instance_lib"] = instance_lib_validate_name(name_arg)]
    /\ UNCHANGED <<module, cp, inv, pc, requests, resp, outcome, prev, name_arg,
                 check_mode, pay_arg, pay_ret, race>>

NextName ==
    \/ CallUtilsValidateName
    \/ CallDiskValidateName
    \/ CallInstanceLibValidateName

SpecName == InitName /\ [][NextName]_vars

-----------------------------------------------------------------------------
(* The payload builders as pure functions: one call of create_disk          *)
(* (library/oxide_disk.py) or create_instance                               *)
(* (plugins/modules/oxide_instance.py) per behaviour, on an argument drawn  *)
(* in the initial state; pay_ret is the json= argument of requests.post.    *)

MaxGB == 50

DiskPayloadInputs ==
    { [fn |-> "create_disk",
       data |-> [name |-> <<"a">>, description |-> "d1", size |-> Some(n),
                 disk_source |-> Some(d)]] :
      n \in 1..MaxGB, d \in disk_sources }

InstancePayloadInputs ==
    { [fn |-> "create_instance",
       data |-> [name |-> <<"a">>, description |-> "d1", hostname |-> "host",
                 memory |-> m, ncpus |-> 1, disks |-> None,
                 ssh_public_keys |-> None, start_on_create |-> TRUE,
                 user_data |-> None]] :
      m \in 1..MaxGB }

\* disk_source of an instance's create entry as AnsibleModule hands it over:
\* every sub-option is a key, None unless given (block_size has no default)
instance_disk_sources ==
    { DiskSource("blank", Some(512), None, None),
      DiskSource("snapshot", None, Some("snap-1"), None),
      DiskSource("image", None, None, Some("img-1")) }

MaxDiskGB == 2

InstanceCreateDisks ==
    { [description |-> "d1", disk_source |-> d, name |-> <<"z">>, size |-> n] :
      d \in instance_disk_sources, n \in 1..MaxDiskGB }

\* disks of plugins/modules/oxide_instance.py: omitted, given with neither
\* list, with empty lists, with one create entry, with one id to attach, or
\* with both
InstanceDisksInputs ==
    { None,
      Some([create |-> None, attach |-> None]),
      Some([create |-> Some(<< >>), attach |-> Some(<< >>)]) }
    \cup { Some([create |-> Some(<<c>>), attach |-> a]) :
             c \in InstanceCreateDisks, a \in {None, Some(<<"disk-1">>)} }
    \cup { Some([create |-> None, attach |-> Some(<<"disk-1">>)]) }

InstanceDisksPayloadInputs ==
    { [fn |-> "create_instance",
       data |-> [name |-> <<"a">>, description |-> "d1", hostname |-> "host",
                 memory |-> 2, ncpus |-> 1, disks |-> ds,
                 ssh_public_keys |-> k, start_on_create |-> TRUE,
                 user_data |-> u]] :
      ds \in InstanceDisksInputs,
      k \in {None, Some(<< >>), Some(<<"ssh-1">>)},
      u \in {None, Some(""), Some("ud")} }

\* disks of oxide_utils.create_instance: one list of typed entries
UtilsDisksInputs ==
    { None, Some(<< >>), Some(<<[type |-> "attach", name |-> <<"z">>]>>) }
    \cup { Some(<<c @@ [type |-> "create"]>>) : c \in InstanceCreateDisks }
    \cup { Some(<<c @@ [type |-> "create"], [type |-> "attach", name |-> <<"z">>]>>) :
             c \in InstanceCreateDisks }

UtilsPayloadInputs ==
    { [fn |-> "utils_create_instance",
       data |-> [name |-> <<"a">>, description |-> "d1", hostname |-> "host",
                 memory |-> 2, ncpus |-> 1, disks |-> ds,
                 ssh_public_keys |-> k, start_on_create |-> TRUE,
                 user_data |-> u]] :
      ds \in UtilsDisksInputs,
      k \in {None, Some(<< >>), Some(<<"ssh-1">>)},
      u \in {None, Some(""), Some("ud")} }

InitPayload ==
    /\ module = "disk"
    /\ cp = [n \in CPNames |-> "absent"]
    /\ inv = NoParams
    /\ pc = "idle"
    /\ requests = << >>
    /\ resp = NoResp
    /\ outcome = None
    /\ prev = None
    /\ NameIdle
    /\ check_mode = FALSE
    /\ \/ pay_arg \in DiskPayloadInputs
       \/ pay_arg \in InstancePayloadInputs \cup InstanceDisksPayloadInputs
       \/ pay_arg \in UtilsPayloadInputs
    /\ pay_ret = None
    /\ RaceIdle

CallCreateDisk ==
    /\ pay_arg.fn = "create_disk"
    /\ pay_ret = None
    /\ pay_ret' = Some(create_disk(pay_arg.data).payload)
    /\ UNCHANGED <<module, cp, inv, pc, requests, resp, outcome, prev, name_arg,
                 name_ret, check_mode, pay_arg, race>>

CallCreateInstance ==
    /\ pay_arg.fn = "create_instance"
    /\ pay_ret = None
    /\ pay_ret' = Some(create_instance(pay_arg.data).payload)
    /\ UNCHANGED <<module, cp, inv, pc, requests, resp, outcome, prev, name_arg,
                 name_ret, check_mode, pay_arg, race>>

CallUtilsCreateInstance ==
    /\ pay_arg.fn = "utils_create_instance"
    /\ pay_ret = None
    /\ pay_ret' = Some(utils_create_instance(pay_arg.data).payload)
    /\ UNCHANGED <<module, cp, inv, pc, requests, resp, outcome, prev, name_arg,
                 name_ret, check_mode, pay_arg, race>>

NextPayload ==
    \/ CallCreateDisk
    \/ CallCreateInstance
    \/ CallUtilsCreateInstance

SpecPayload == InitPayload /\ [][NextPayload]_vars

-----------------------------------------------------------------------------
(* Two state=present invocations of the same module for the same name,     *)
(* started against a control plane that lacks the object. Each runs main() *)
(* in its own process; the only thing they share is the control plane,     *)
(* which serves one request at a time and does not fail.                   *)

\* the control plane's answers when it is healthy: 201, or 400 conflict
CPPostAtomic(store, payload) ==
    {a \in CPPost(store, payload) : a.answer \notin PostErrors}

InitRace ==
    /\ module \in Modules
    /\ cp = [n \in CPNames |-> "absent"]
    /\ inv = NoParams
    /\ pc = "idle"
    /\ requests = << >>
    /\ resp = NoResp
    /\ outcome = None
    /\ prev = None
    /\ check_mode = FALSE
    /\ NameIdle
    /\ PayIdle
    /\ RaceIdle

RaceFrame ==
    UNCHANGED <<module, inv, pc, requests, resp, outcome, prev, name_arg, name_ret,
                check_mode, pay_arg, pay_ret>>

\* AnsibleModule(...) hands main() its parameters; the second invocation to
\* start names the same object as the first
RaceInvoke ==
    /\ \E i \in Procs :
          /\ race[i].pc = "idle"
          /\ \E p \in Params(module) :
                /\ p.state = "present"
                /\ \A j \in Procs \ {i} :
                      race[j].pc = "idle" \/ race[j].inv.name = p.name
                /\ race' = [race EXCEPT ![i].inv = p, ![i].pc = "validate"]
    /\ UNCHANGED cp
    /\ RaceFrame

RaceValidateName ==
    /\ \E i \in Procs :
          /\ race[i].pc = "validate"
          /\ LET v == Validate(module, race[i].inv)
                 r == IF ~v.is_valid THEN FailJson(v.error_message, None)
                      ELSE Proceed("check")
             IN  race' = [race EXCEPT ![i].pc = r.pc, ![i].outcome = r.out]
    /\ UNCHANGED cp
    /\ RaceFrame

RaceRequiredFields ==
    /\ \E i \in Procs :
          /\ race[i].pc = "check"
          /\ LET r == Required(module, race[i].inv)
             IN  race' = [race EXCEPT ![i].pc = r.pc, ![i].outcome = r.out]
    /\ UNCHANGED cp
    /\ RaceFrame

\* requests.post(...) is one atomic exchange with the control plane
RaceCallCreate ==
    /\ \E i \in Procs :
          /\ race[i].pc = "call"
          /\ LET plan == CreatePlan(module, race[i].inv)
             IN  CASE plan.kind = "raise" ->
                        /\ race' = [race EXCEPT ![i].pc = "crashed"]
                        /\ UNCHANGED cp
                   [] plan.kind = "return" ->
                        /\ race' = [race EXCEPT ![i].pc = "classify",
                                                ![i].resp = plan.ret]
                        /\ UNCHANGED cp
                   [] plan.kind = "post" ->
                        \E a \in CPPostAtomic(cp, plan.payload) :
                            LET ret == CreateReturn(module, a.answer)
                            IN  /\ cp' = a.store
                                /\ race' = [race EXCEPT
                                      ![i].requests = Append(@,
                                          Exchange("POST", race[i].inv.name,
                                                   plan.payload, a.answer)),
                                      ![i].resp = ret,
                                      ![i].pc = IF ret.raised THEN "crashed"
                                                ELSE "classify"]
    /\ RaceFrame

RaceClassify ==
    /\ \E i \in Procs :
          /\ race[i].pc = "classify"
          /\ LET r == Present(module, race[i].resp.status_code, race[i].resp.response)
             IN  race' = [race EXCEPT ![i].pc = r.pc, ![i].outcome = r.out]
    /\ UNCHANGED cp
    /\ RaceFrame

NextRace ==
    \/ RaceInvoke
    \/ RaceValidateName
    \/ RaceRequiredFields
    \/ RaceCallCreate
    \/ RaceClassify

SpecRace == InitRace /\ [][NextRace]_vars

-----------------------------------------------------------------------------
(* library/oxide_disk_info.py                                              *)

\* module.params: project and disk_ids are optional
info_params ==
    [project : {None, Some("proj")},
     disk_ids : {None, Some(<< >>), Some(<<"d1">>), Some(<<"d1", "d2">>),
                 Some(<<"d2", "d1">>)}]

\* What a GET can meet: a JSON body with status 200, a JSON error body, an
\* error status with an empty body, an error status with a body that is not
\* JSON (a proxy's error page), status 200 with such a body, no connection.
InfoAnswerKinds == {"ok", "not_found", "error_empty", "error_text", "ok_text", "no_connection"}

InfoAnswer(target, kind) ==
    CASE kind = "ok" ->
           [status_code |-> 200, body |-> "json", content |-> Some([id |-> target])]
      [] kind = "not_found" ->
           [status_code |-> 404, body |-> "json", content |-> Some(ErrBody("ObjectNotFound"))]
      [] kind = "error_empty" -> [status_code |-> 502, body |-> "empty", content |-> None]
      [] kind = "error_text" -> [status_code |-> 502, body |-> "text", content |-> None]
      [] kind = "ok_text" -> [status_code |-> 200, body |-> "text", content |-> None]
      [] kind = "no_connection" -> [status_code |-> 0, body |-> "none", content |-> None]

InfoReturned(value) == [raised |-> FALSE, value |-> value]
InfoRaised == [raised |-> TRUE, value |-> [error |-> "JSONDecodeError"]]

\* OxideAPI.request: the try block, the HTTPError handler, the catch-all
\* handler. response.json() inside the HTTPError handler is outside the try
\* block: what it raises leaves request().
api_request(a) ==
    IF a.body = "none" THEN InfoReturned([error |-> "ConnectionError"])
    ELSE IF a.status_code >= 400
    THEN IF a.body = "empty"
         THEN InfoReturned([error |-> "HTTPError", response |-> None])
         ELSE IF a.body = "json"
         THEN InfoReturned([error |-> "HTTPError", response |-> a.content])
         ELSE InfoRaised
    ELSE IF a.body = "json" THEN InfoReturned(a.content[1])
    ELSE InfoReturned([error |-> "JSONDecodeError"])

\* [api.get_disk(disk_id) for disk_id in disk_ids], answered by kinds in turn
RECURSIVE get_disks(_, _)
get_disks(disk_ids, kinds) ==
    IF disk_ids = << >>
    THEN [requests |-> << >>, disks |-> << >>, raised |-> FALSE]
    ELSE LET a == InfoAnswer(Head(disk_ids), Head(kinds))
             r == api_request(a)
             x == Exchange("GET", Head(disk_ids), EmptyDict, a)
         IN  IF r.raised
             THEN [requests |-> <<x>>, disks |-> << >>, raised |-> TRUE]
             ELSE LET rest == get_disks(Tail(disk_ids), Tail(kinds))
                  IN  [requests |-> <<x>> \o rest.requests,
                       disks |-> <<r.value>> \o rest.disks,
                       raised |-> rest.raised]

\* api.list_disks(project)
list_disks(project, kind) ==
    LET a == InfoAnswer(project, kind)
        r == api_request(a)
    IN  [requests |-> <<Exchange("GET", project, EmptyDict, a)>>,
         disks |-> r.value, raised |-> r.raised]

InitInfo ==
    /\ module = "disk_info"
    /\ cp = [n \in CPNames |-> "absent"]
    /\ inv = NoParams
    /\ pc = "idle"
    /\ requests = << >>
    /\ resp = NoResp
    /\ outcome = None
    /\ prev = None
    /\ check_mode \in BOOLEAN
    /\ NameIdle
    /\ PayIdle
    /\ RaceIdle

InfoFrame ==
    UNCHANGED <<module, cp, resp, prev, name_arg, name_ret, check_mode, pay_arg,
                pay_ret, race>>

\* AnsibleModule(...) hands main() its parameters
InfoInvoke ==
    /\ pc = "idle"
    /\ \E p \in info_params : inv' = p
    /\ pc' = "check_mode"
    /\ UNCHANGED <<requests, outcome>>
    /\ InfoFrame

\* if module.check_mode: module.exit_json(changed=False)
InfoCheckMode ==
    /\ pc = "check_mode"
    /\ LET r == IF check_mode THEN ExitJson(FALSE, None, None) ELSE Proceed("fetch")
       IN  pc' = r.pc /\ outcome' = r.out
    /\ UNCHANGED <<inv, requests>>
    /\ InfoFrame

\* the try block of main(): one GET per id, or one GET for the project's
\* list, or fail_json when neither is given; "except Exception" turns what
\* request() lets out into fail_json(msg=str(e))
InfoFetch ==
    /\ pc = "fetch"
    /\ IF TruthyList(inv.disk_ids)
       THEN \E kinds \in [1..Len(inv.disk_ids[1]) -> InfoAnswerKinds] :
               LET g == get_disks(inv.disk_ids[1], kinds)
                   r == IF g.raised THEN FailJson("JSONDecodeError", None)
                        ELSE ExitJson(FALSE, Some(g.disks), None)
               IN  requests' = g.requests /\ pc' = r.pc /\ outcome' = r.out
       ELSE IF ~TruthyStr(inv.project)
       THEN LET r == FailJson("Project is required when disk_ids are not provided", None)
            IN  requests' = requests /\ pc' = r.pc /\ outcome' = r.out
       ELSE \E kind \in InfoAnswerKinds :
               LET g == list_disks(inv.project[1], kind)
                   r == IF g.raised THEN FailJson("JSONDecodeError", None)
                        ELSE ExitJson(FALSE, Some(g.disks), None)
               IN  requests' = g.requests /\ pc' = r.pc /\ outcome' = r.out
    /\ UNCHANGED inv
    /\ InfoFrame

NextInfo ==
    \/ InfoInvoke
    \/ InfoCheckMode
    \/ InfoFetch

SpecInfo == InitInfo /\ [][NextInfo]_vars


----------------------------------------------------------------------------
(* Properties                                                              *)

AlreadyExistsAnswer == HttpResponse(400, Some(ErrBody("ObjectAlreadyExists")))
NotFoundAnswer == HttpResponse(404, Some(ErrBody("ObjectNotFound")))

\* the invocation issued exactly one request, with this verb
OneRequest(reqs, verb) == Len(reqs) = 1 /\ reqs[1].verb = verb

Emitted(o, changed, failed) ==
    o /= None /\ o[1].changed = changed /\ o[1].failed = failed

\* the current invocation repeats the one before it, both have ended, the first
\* one's request was answered with status first and this one's got the answer second
TwiceAnswered(state, verb, first, second) ==
    /\ prev /= None
    /\ pc \in Terminal
    /\ inv.state = state
    /\ OneRequest(prev[1].requests, verb)
    /\ prev[1].requests[1].answer.status_code = first
    /\ OneRequest(requests, verb)
    /\ requests[1].answer = second

IsAlreadyExists(a) == a = AlreadyExistsAnswer
IsNotFound(a) == a = NotFoundAnswer

\* C1: two successive state=present invocations with the same parameters, the
\* first POST answered 201 and the second 400 ObjectAlreadyExists, yield
\* changed=true and then changed=false, and neither is failed; every module.
C1_PresentTwice ==
    TwiceAnswered("present", "POST", 201, AlreadyExistsAnswer)
        => /\ Emitted(prev[1].outcome, TRUE, FALSE)
           /\ Emitted(outcome, FALSE, FALSE)

C1_Witness ==
    /\ TwiceAnswered("present", "POST", 201, AlreadyExistsAnswer)
    /\ module = "disk"
    /\ pc = "done"

\* C2: two successive state=absent invocations, the first DELETE answered 204
\* and the second 404 ObjectNotFound, yield changed=true and then
\* changed=false, and neither is failed; every module.
C2_AbsentTwice ==
    TwiceAnswered("absent", "DELETE", 204, NotFoundAnswer)
        => /\ Emitted(prev[1].outcome, TRUE, FALSE)
           /\ Emitted(outcome, FALSE, FALSE)

\* the answer is a create answered 400, or a delete answered 404, whose body
\* has no error_code key
LacksErrorCode(x) ==
    /\ x.answer.content /= None
    /\ ~HasKey(x.answer.content[1], "error_code")
    /\ \/ x.verb = "POST" /\ x.answer.status_code = 400
       \/ x.verb = "DELETE" /\ x.answer.status_code = 404

\* C3: when a create is answered 400 or a delete 404 and the body has no
\* error_code key, the invocation ends failed, never as a success.
C3_NoErrorCodeFails ==
    (pc \in Terminal /\ requests /= << >> /\ LacksErrorCode(requests[Len(requests)]))
        => /\ pc = "failed"
           /\ Emitted(outcome, FALSE, TRUE)

\* C4: after an invocation that ends in a non-failed outcome the control plane
\* agrees with the desired state.
C4_Converged ==
    (pc = "done")
        => /\ inv.state = "present" => Exists(cp, inv.name)
           /\ inv.state = "absent" => ~Exists(cp, inv.name)

AlreadyPresentMsgs ==
    {"Project already present", "Disk already present", "Image already present",
     "Snapshot already present", "SSH key already present", "Instance already present"}

\* C5: a create answered 400 with error_code ObjectAlreadyExists ends not
\* failed, with changed=false and a message saying the resource is already
\* present; every module, disk included.
C5_AlreadyPresent ==
    (pc \in Terminal /\ inv.state = "present" /\ OneRequest(requests, "POST")
       /\ IsAlreadyExists(requests[1].answer))
        => /\ Emitted(outcome, FALSE, FALSE)
           /\ outcome[1].msg /= None
           /\ outcome[1].msg[1] \in AlreadyPresentMsgs


NotPresentMsgs ==
    {"Project not present", "Disk not present", "Image not present",
     "Snapshot not present", "SSH key not present", "Instance not present"}

DeleteAnswered ==
    pc \in Terminal /\ inv.state = "absent" /\ OneRequest(requests, "DELETE")

\* C6: a delete answered 204 yields changed=true; one answered 404 with
\* error_code ObjectNotFound yields changed=false, not failed, with a "not
\* present" message; one answered 404 with another error_code ends failed.
C6_DeleteClassified ==
    DeleteAnswered =>
        LET a == requests[1].answer
        IN  /\ a.status_code = 204 => Emitted(outcome, TRUE, FALSE)
            /\ a = NotFoundAnswer =>
                  /\ Emitted(outcome, FALSE, FALSE)
                  /\ outcome[1].msg /= None
                  /\ outcome[1].msg[1] \in NotPresentMsgs
            /\ (a.status_code = 404 /\ a.content /= None
                  /\ HasKey(a.content[1], "error_code")
                  /\ a.content[1].error_code /= "ObjectNotFound")
                 => Emitted(outcome, FALSE, TRUE)

CreateAnswered201 ==
    /\ pc \in Terminal
    /\ inv.state = "present"
    /\ OneRequest(requests, "POST")
    /\ requests[1].answer.status_code = 201

\* C7: a create answered 201 yields changed=true, not failed, and the resource
\* attached to the outcome is the body the control plane sent, key for key.
C7_CreatedResource ==
    CreateAnswered201 =>
        /\ Emitted(outcome, TRUE, FALSE)
        /\ outcome[1].resource = requests[1].answer.content

C7_Witness ==
    /\ CreateAnswered201
    /\ module = "snapshot"
    /\ outcome /= None
    /\ DOMAIN outcome[1].resource[1] = {"id", "name", "description"}

\* validate_name as each module imports or defines it
NameRejected(m, n) ==
    IF m = "disk" THEN ~disk_validate_name(n).is_valid
    ELSE IF m = "instance_lib" THEN ~instance_lib_validate_name(n).is_valid
    ELSE ~utils_validate_name(n).is_valid

\* C8: when validate_name rejects the name, the invocation never gets past
\* validation: it ends failed with validate_name's message and has issued no
\* request, whatever the state and the other parameters.
C8_RejectedNameStops ==
    (pc \notin {"idle", "validate"} /\ NameRejected(module, inv.name))
        => /\ pc = "failed"
           /\ requests = << >>
           /\ outcome /= None
           /\ outcome[1].failed
           /\ outcome[1].msg \in {Some(MsgTooLong), Some(MsgTooShort),
                                  Some(MsgPatternUtils), Some(MsgPatternLib)}

C8_Witness ==
    /\ pc = "failed"
    /\ NameRejected(module, inv.name)
    /\ module = "disk"
    /\ inv.state = "present"
    /\ inv.size = None
    /\ inv.disk_source = None

\* C9: validate_name accepts exactly the strings of 1 to 63 characters made
\* of one character of [a-z0-9] followed by characters of [a-z0-9-].
C9_ValidateNameGrammar ==
    (name_ret["utils"] /= NoResult)
        => (name_ret["utils"].is_valid
              <=> (Len(name_arg) >= 1 /\ Len(name_arg) <= 63 /\ FullMatch(name_arg)))

InstanceModules == {"instance", "instance_lib"}

\* C10 as stated: in the instance reconciliation with state=present every POST
\* comes after a GET for the instance that was answered 404.
C10_ProbeBeforePost ==
    (module \in InstanceModules /\ inv.state = "present")
        => \A i \in 1..Len(requests) :
              requests[i].verb = "POST"
                => \E j \in 1..(i - 1) :
                      /\ requests[j].verb = "GET"
                      /\ requests[j].answer.status_code = 404

\* C10 amended: the instance reconciliation with state=present never issues a
\* GET; its only request is one POST, issued whenever the name is valid.
\* Answered 201 it ends changed=true with
\* the response body as resource; answered 400 with ObjectAlreadyExists it
\* ends changed=false with no resource attached; any other answer that
\* decodes ends failed.
C10_DirectCreate ==
    (module \in InstanceModules /\ inv.state = "present")
        => /\ \A i \in 1..Len(requests) : requests[i].verb = "POST"
           /\ Len(requests) <= 1
           /\ (pc \in Terminal /\ ~NameRejected(module, inv.name)) => Len(requests) = 1
           /\ (pc \in Terminal /\ Len(requests) = 1 /\ requests[1].answer.content /= None)
                => LET a == requests[1].answer
                   IN  IF a.status_code = 201
                       THEN Emitted(outcome, TRUE, FALSE) /\ outcome[1].resource = a.content
                       ELSE IF a = AlreadyExistsAnswer
                       THEN Emitted(outcome, FALSE, FALSE) /\ outcome[1].resource = None
                       ELSE Emitted(outcome, FALSE, TRUE)

C10_Witness ==
    /\ module = "instance"
    /\ inv.state = "present"
    /\ pc = "done"
    /\ requests /= << >>
    /\ requests[1].answer = AlreadyExistsAnswer
    /\ Emitted(outcome, FALSE, FALSE)


\* a required parameter of the module was left out
MissingRequired(m, p) ==
    CASE m = "disk" -> p.size = None
      [] m = "snapshot" -> p.disk = None
      [] m = "image" -> p.os = None \/ p.version = None
      [] m = "ssh_key" -> p.public_key = None
      [] OTHER -> FALSE

\* the messages that name a parameter p leaves out
MissingMsgs(m, p) ==
    CASE m = "disk" -> {"Parameter 'size' is required when state is 'present'"}
      [] m = "snapshot" -> {"Parameter 'disk' is required when state is 'present'"}
      [] m = "image" ->
           (IF p.os = None
              THEN {"Parameter 'os' is required when state is 'present'"} ELSE {})
           \cup
           (IF p.version = None
              THEN {"Parameter 'version' is required when state is 'present'"} ELSE {})
      [] m = "ssh_key" -> {"Parameter 'public_key' is required when state is 'present'"}
      [] OTHER -> {}

\* C11: with state=present and a valid name, a missing required parameter
\* (size, disk, os, version, public_key) ends the invocation failed with a
\* message naming the parameter and without any request, whatever the other
\* optional parameters are (disk_source or source left out included).
C11_MissingFieldFails ==
    (pc \in Terminal /\ inv.state = "present" /\ ~NameRejected(module, inv.name)
       /\ MissingRequired(module, inv))
        => /\ pc = "failed"
           /\ requests = << >>
           /\ outcome /= None
           /\ outcome[1].failed
           /\ outcome[1].msg /= None
           /\ outcome[1].msg[1] \in MissingMsgs(module, inv)


\* the field the active disk_source variant requires
VariantField(type) ==
    CASE type \in {"blank", "importing_blocks"} -> "block_size"
      [] type = "snapshot" -> "snapshot_id"
      [] type = "image" -> "image_id"

\* the active variant's field is not a key, or is a key holding None
LacksVariantField(ds) ==
    \/ ~HasKey(ds, VariantField(ds.type))
    \/ ds[VariantField(ds.type)] = None

\* C12: a disk invocation (state=present, valid name) whose disk_source lacks
\* the field of its variant issues no POST and ends failed.
C12_VariantFieldRequired ==
    (module = "disk" /\ pc /= "idle" /\ inv.state = "present"
       /\ ~NameRejected(module, inv.name)
       /\ inv.disk_source /= None /\ LacksVariantField(inv.disk_source[1]))
        => /\ requests = << >>
           /\ pc \in Terminal => (pc = "failed" /\ outcome /= None /\ outcome[1].failed)


\* create_disk was called and returned its payload
DiskPayloadBuilt == pay_arg.fn = "create_disk" /\ pay_ret /= None

\* C13: the disk_source of the disk create payload has exactly the keys
\* "type" and the field of the active variant, with the input's values,
\* whatever other fields the input disk_source carries.
C13_ExactVariantFields ==
    DiskPayloadBuilt =>
        LET ds  == pay_arg.data.disk_source[1]
            out == pay_ret[1].disk_source
        IN  /\ DOMAIN out = {"type", VariantField(ds.type)}
            /\ out.type = ds.type
            /\ out[VariantField(ds.type)] = ds[VariantField(ds.type)]

\* a snapshot source whose input also carries the defaulted block_size
C13_Witness ==
    /\ DiskPayloadBuilt
    /\ pay_arg.data.disk_source[1].type = "snapshot"
    /\ pay_arg.data.disk_source[1].block_size = Some(512)
    /\ pay_arg.data.disk_source[1].snapshot_id = Some("snap-1")
    /\ DOMAIN pay_ret[1].disk_source = {"type", "snapshot_id"}

\* n * 2^30 from the decimal digits of 2^30 = 1073 741824, n <= MaxGB + 1
GiBTimes(n) ==
    LET lo == n * 741824
    IN  <<lo % LimbBase, n * 1073 + (lo \div LimbBase)>>

HexChars == Digits \cup {"a", "b", "c", "d", "e", "f"} \cup {"A", "B", "C", "D", "E", "F"}

\* 8-4-4-4-12 hexadecimal digits separated by hyphens
IsUuid(s) ==
    /\ Len(s) = 36
    /\ \A i \in 1..36 :
          IF i \in {9, 14, 19, 24} THEN s[i] = Hyphen ELSE s[i] \in HexChars

ContainsUuid(s) ==
    \E i \in 1..(Len(s) - 35) : IsUuid(SubSeq(s, i, i + 35))

\* C15: validate_name rejects every name that is a UUID and accepts a name
\* of the grammar that only contains one.
C15_UuidRejected ==
    (name_ret["utils"] /= NoResult)
        => /\ IsUuid(name_arg) => ~name_ret["utils"].is_valid
           /\ (ContainsUuid(name_arg) /\ ~IsUuid(name_arg)
                 /\ Len(name_arg) <= MaxNameLen /\ FullMatch(name_arg)
                 /\ name_arg[Len(name_arg)] /= Hyphen)
                => name_ret["utils"].is_valid

\* C16: validate_name rejects every name whose last character is "-".
C16_TrailingHyphenRejected ==
    (name_ret["utils"] /= NoResult /\ Len(name_arg) >= 1
       /\ name_arg[Len(name_arg)] = Hyphen)
        => ~name_ret["utils"].is_valid


MutatingVerbs == {"POST", "DELETE"}

\* C17: an invocation that runs in check mode issues no POST and no DELETE
\* (so the control plane is left as it was), for every module and both
\* desired states.
C17_CheckModeNoMutation ==
    check_mode => \A i \in 1..Len(requests) : requests[i].verb \notin MutatingVerbs


\* the class of what a step of main() ended in
OutcomeClass(r) ==
    IF r.pc = "crashed" \/ r.out = None THEN "none"
    ELSE IF r.out[1].failed THEN "failed"
    ELSE IF r.out[1].changed THEN "changed"
    ELSE "unchanged"

\* what module m makes of an API result for the desired state
ClassifiedBy(m, state, status_code, response) ==
    OutcomeClass(IF state = "present" THEN Present(m, status_code, response)
                 ELSE Absent(m, status_code, response))

\* C18: an API result (verb, status code, decoded body) that one module has
\* classified is put in the same class, changed, unchanged or failed, by
\* every module.
C18_UniformClassification ==
    (pc \in Terminal /\ requests /= << >> /\ ~resp.raised)
        => \A m \in Modules :
              /\ ClassifiedBy(m, inv.state, resp.status_code, resp.response)
                    = OutcomeClass([pc |-> pc, out |-> outcome])
              /\ OutcomeClass([pc |-> pc, out |-> outcome])
                    \in {"changed", "unchanged", "failed"}


\* C19: every invocation that ends has emitted exactly one outcome, by
\* exit_json (Done) or by fail_json (Failed); none ends in an unhandled error.
C19_OneOutcome ==
    pc \in Terminal => (pc \in {"done", "failed"} /\ Len(outcome) = 1)

\* the invocation's one request got an answer with a body that decodes and a
\* status that is not the verb's success status
FailureAnswered ==
    /\ pc \in Terminal
    /\ Len(requests) = 1
    /\ requests[1].answer.content /= None
    /\ \/ requests[1].verb = "POST" /\ requests[1].answer.status_code /= 201
       \/ requests[1].verb = "DELETE" /\ requests[1].answer.status_code /= 204

\* C20: when a create or delete is answered with a failure status and the
\* module does not absorb the answer as already-exists or not-found, the
\* invocation ends failed and the outcome's response is the decoded body.
C20_FailureCarriesBody ==
    (FailureAnswered /\ pc /= "done")
        => /\ pc = "failed"
           /\ Emitted(outcome, FALSE, TRUE)
           /\ outcome[1].response = Some(requests[1].answer.content[1])


\* one of the two instance payload builders was called and returned
InstancePayloadBuilt ==
    pay_arg.fn \in {"create_instance", "utils_create_instance"} /\ pay_ret /= None

\* C21: the instance create payload holds no empty collection: disks,
\* ssh_public_keys and user_data are keys only when they are not empty.
C21_NoEmptyCollections ==
    InstancePayloadBuilt =>
        LET p == pay_ret[1]
        IN  /\ HasKey(p, "disks") => p.disks /= << >>
            /\ HasKey(p, "ssh_public_keys") => p.ssh_public_keys /= << >>
            /\ HasKey(p, "user_data") => p.user_data /= ""


\* the disk entries of the payload built, none when it has no disks key
EmittedDisks ==
    IF HasKey(pay_ret[1], "disks") THEN pay_ret[1].disks ELSE << >>

\* the create entries the builder was given
GivenCreateDisks ==
    IF pay_arg.fn = "create_instance"
    THEN IF pay_arg.data.disks /= None /\ TruthyList(pay_arg.data.disks[1].create)
         THEN {pay_arg.data.disks[1].create[1][i] :
                  i \in 1..Len(pay_arg.data.disks[1].create[1])}
         ELSE {}
    ELSE IF TruthyList(pay_arg.data.disks)
         THEN {pay_arg.data.disks[1][i] :
                  i \in {j \in 1..Len(pay_arg.data.disks[1]) :
                            pay_arg.data.disks[1][j].type = "create"}}
         ELSE {}

\* C22: in both instance payload builders every emitted disk entry is tagged
\* create or attach; a create entry's size is the given size times 1024^3;
\* an attach entry has the type tag and one identifying key, nothing else.
C22_DiskEntries ==
    InstancePayloadBuilt =>
        \A i \in 1..Len(EmittedDisks) :
            LET e == EmittedDisks[i]
            IN  /\ e.type \in {"create", "attach"}
                /\ e.type = "create" =>
                      \E c \in GivenCreateDisks :
                          e.name = c.name /\ e.size = GiBTimes(c.size)
                /\ e.type = "attach" =>
                      (DOMAIN e = {"id", "type"} \/ DOMAIN e = {"name", "type"})

\* C23: the disk_source nested in every create entry of the instance payload
\* has the keys "type" and the field of the active variant and no other.
C23_NestedVariantFields ==
    InstancePayloadBuilt =>
        \A i \in 1..Len(EmittedDisks) :
            EmittedDisks[i].type = "create" =>
                DOMAIN EmittedDisks[i].disk_source
                    = {"type", VariantField(EmittedDisks[i].disk_source.type)}


\* the positions of the invocation's requests that carry one of the verbs
RequestsWith(verbs) == {i \in 1..Len(requests) : requests[i].verb \in verbs}

\* C24: an invocation issues at most two requests, at most one of them
\* mutating; state=present never issues DELETE, state=absent never issues
\* POST; no verb is issued a second time, whatever the answer was.
C24_BoundedRequests ==
    /\ Len(requests) <= 2
    /\ Cardinality(RequestsWith(MutatingVerbs)) <= 1
    /\ inv.state = "present" => RequestsWith({"DELETE"}) = {}
    /\ inv.state = "absent" => RequestsWith({"POST"}) = {}
    /\ \A i, j \in 1..Len(requests) : requests[i].verb = requests[j].verb => i = j

\* a create that was answered 500 has ended, failed, after its one POST
C24_Witness ==
    /\ module = "ssh_key"
    /\ pc = "failed"
    /\ inv.state = "present"
    /\ OneRequest(requests, "POST")
    /\ requests[1].answer.status_code = 500


\* both concurrent invocations have ended, each after its POST was answered
BothRaced ==
    \A i \in Procs :
        race[i].pc \in Terminal /\ OneRequest(race[i].requests, "POST")

\* C25: of two concurrent state=present invocations for one name that the
\* control plane did not hold, exactly one reports changed=true and the
\* other changed=false, neither failed, and the object exists afterwards.
C25_RaceOneCreates ==
    BothRaced =>
        /\ \E i \in Procs :
              /\ Emitted(race[i].outcome, TRUE, FALSE)
              /\ \A j \in Procs \ {i} : Emitted(race[j].outcome, FALSE, FALSE)
        /\ \A i \in Procs : Exists(cp, race[i].inv.name)

\* the disk invocation that lost the race reports changed=false
C25_Witness ==
    /\ module = "disk"
    /\ BothRaced
    /\ Emitted(race[1].outcome, FALSE, FALSE)
    /\ Emitted(race[2].outcome, TRUE, FALSE)
    /\ race[1].requests[1].answer = AlreadyExistsAnswer


\* C26: while an invocation with state=present runs for a name the control
\* plane holds, what the control plane stores is left as it is, whatever
\* the invocation's attributes are, and the invocation's only verb is POST.
C26_NoUpdate ==
    [][ (pc \in {"validate", "check", "call", "classify"} /\ inv.state = "present"
           /\ Exists(cp, inv.name))
          => /\ cp' = cp
             /\ \A i \in 1..Len(requests') : requests'[i].verb = "POST" ]_vars

\* a create for a held name with another description has ended unchanged and
\* the stored object still has its own description
C26_Witness ==
    /\ pc = "done"
    /\ inv.state = "present"
    /\ OneRequest(requests, "POST")
    /\ requests[1].answer = AlreadyExistsAnswer
    /\ Exists(cp, inv.name)
    /\ cp[inv.name] /= inv.description


\* C27: every validate_name implementation checks length before pattern and
\* names the rule that failed: over 63 characters the maximum-length message,
\* the empty name a minimum-length message, and a name of 1 to 63 characters
\* that the pattern does not match the pattern message.
C27_MessageNamesRule ==
    \A i \in NameImpls :
        name_ret[i] /= NoResult =>
            /\ Len(name_arg) > MaxNameLen =>
                  (~name_ret[i].is_valid /\ name_ret[i].error_message = MsgTooLong)
            /\ Len(name_arg) = 0 =>
                  (~name_ret[i].is_valid /\ name_ret[i].error_message = MsgTooShort)
            /\ (Len(name_arg) >= 1 /\ Len(name_arg) <= MaxNameLen /\ ~ReMatch(name_arg)) =>
                  (~name_ret[i].is_valid
                     /\ name_ret[i].error_message \in {MsgPatternUtils, MsgPatternLib})


\* C28: a DELETE answered 204 is returned by the delete function as
\* (204, {}) without decoding the body, and the invocation ends with the
\* changed=true outcome; in every module.
C28_Delete204NotDecoded ==
    (DeleteAnswered /\ requests[1].answer.status_code = 204)
        => /\ resp = Returned(204, EmptyDict)
           /\ pc = "done"
           /\ Emitted(outcome, TRUE, FALSE)


\* the invocation got 201 for a POST or 204 for a DELETE
MutationAnswered ==
    \E i \in 1..Len(requests) :
        \/ requests[i].verb = "POST" /\ requests[i].answer.status_code = 201
        \/ requests[i].verb = "DELETE" /\ requests[i].answer.status_code = 204

\* C29: an outcome with changed=true is not failed and is emitted only after
\* a POST answered 201 or a DELETE answered 204 in this invocation.
C29_ChangedOnlyAfterMutation ==
    (outcome /= None /\ outcome[1].changed)
        => (~outcome[1].failed /\ MutationAnswered)

\* a snapshot was deleted and the outcome says changed=true
C29_Witness ==
    /\ module = "snapshot"
    /\ pc = "done"
    /\ Emitted(outcome, TRUE, FALSE)
    /\ OneRequest(requests, "DELETE")
    /\ requests[1].answer.status_code = 204


\* C30: oxide_disk_info issues only GETs and never reports changed=true; in
\* check mode it issues no request; given a non-empty disk_ids it issues one
\* GET per id, in list order, and returns one entry per id; given neither
\* disk_ids nor project it fails without a request.
C30_DiskInfoReadOnly ==
    /\ \A i \in 1..Len(requests) : requests[i].verb = "GET"
    /\ outcome /= None => ~outcome[1].changed
    /\ check_mode => requests = << >>
    /\ (pc \in Terminal /\ ~check_mode /\ TruthyList(inv.disk_ids)) =>
          /\ Len(requests) = Len(inv.disk_ids[1])
          /\ \A i \in 1..Len(requests) : requests[i].name = inv.disk_ids[1][i]
          /\ pc = "done"
          /\ Len(outcome[1].resource[1]) = Len(inv.disk_ids[1])
    /\ (pc \in Terminal /\ ~check_mode /\ ~TruthyList(inv.disk_ids)
          /\ ~TruthyStr(inv.project)) =>
          (pc = "failed" /\ requests = << >>)

============================================================================
